---- MODULE Spec2Model ----
(***************************************************************************)
(* Model of the product-creation workflow of src/lib/services/            *)
(* productService.ts (optimizeImage, createThumbnail, createProduct,      *)
(* productSchema).                                                        *)
(*                                                                         *)
(* JavaScript strings are sequences of one-character strings, so that the *)
(* string operations of the code (split, pop, substr, template literals)  *)
(* are computed and not assumed.  Code between two awaits runs without    *)
(* interleaving (one event loop), so each action is one such run.         *)
(***************************************************************************)
EXTENDS Integers, Sequences, FiniteSets, TLC

VARIABLES
    pc,        \* per invocation: where createProduct is suspended
    data,      \* per invocation: the ProductFormData submitted
    userId,    \* per invocation: the userId argument of createProduct
    paths,     \* per invocation: imagePath / thumbnailPath once generated
    upl,       \* per invocation: state of the two upload calls
    ins,       \* per invocation: state of the insert call
    del,       \* per invocation: state of the two remove calls
    outcome,   \* per invocation: how the promise of createProduct settled
    calls,     \* per invocation: number of calls issued, per kind
    blobs,     \* object storage, bucket 'products': the stored objects
    records,   \* record store, table 'products': the inserted rows
    now,       \* the last value Date.now() returned
    ip,        \* one call of optimizeImage or createThumbnail, step by step
    kg,        \* one run of the key generation of createProduct
    nav        \* the dashboard router: the browser's history and the page shown

wfVars == <<pc, data, userId, paths, upl, ins, del, outcome, calls, blobs, records, now>>

vars == <<pc, data, userId, paths, upl, ins, del, outcome, calls, blobs, records, now, ip, kg, nav>>

----------------------------------------------------------------------------
(* Bounds and input sets *)

\* Date.now() returns values in 0..MaxTime.
MaxTime == 1

\* The concurrent invocations of createProduct.
Procs == {"p1", "p2"}

Users == {<<"u">>}

\* File names of the submitted image: with an extension, and without one.
FileNames == {<<"a", ".", "p", "n", "g">>, <<"p", "i", "c">>}

\* error.message of an error result of the record-store client.
InsertErrMsgs == {<<"e1">>, <<"e2">>}

\* error.message of an error result of the storage client.
StorageErrMsgs == {<<"s1">>}

\* The message of the storage service when the key exists and upsert is false.
DuplicateMsg == <<"The resource already exists">>

\* Results of Math.random().toString(36): "0." and the digits in base 36.
\* The last two differ only after the ninth digit.
RandomStrings ==
    { <<"0", ".", "k">>,
      <<"0", ".", "4", "f", "z", "y", "o", "8", "2", "m", "v", "y", "r">>,
      <<"0", ".", "4", "f", "z", "y", "o", "8", "2", "m", "v", "z", "z">> }

----------------------------------------------------------------------------
(* JavaScript values *)

Undefined == [t |-> "undefined"]
Str(s) == [t |-> "string", v |-> s]
File(name) == [t |-> "File", name |-> name]

\* new Error(message)
Error(m) == [isError |-> TRUE, message |-> m]
\* a thrown value that is not an Error (a string, an object literal)
NonError(m) == [isError |-> FALSE, message |-> m]

\* What a call of the external client can reject with.
RejectValues == {Error(<<"network">>), NonError(<<"aborted">>)}

Pending == [t |-> "pending"]
NotIssued == [t |-> "none"]
Ok == [t |-> "ok"]
ErrResult(m) == [t |-> "error", message |-> m]
Rejected(v) == [t |-> "rejected", value |-> v]

----------------------------------------------------------------------------
(* String operations of JavaScript, on sequences of characters *)

DigitChars == <<"0", "1", "2", "3", "4", "5", "6", "7", "8", "9">>

\* String(n) for a non-negative integer n: its decimal digits.
RECURSIVE NumberToString(_)
NumberToString(n) ==
    IF n < 10 THEN <<DigitChars[n + 1]>>
    ELSE NumberToString(n \div 10) \o <<DigitChars[(n % 10) + 1]>>

\* s.split(sep) for a one-character separator: the segments between the
\* separators, the empty ones included; a string without sep is one segment.
RECURSIVE split(_, _)
split(s, sep) ==
    IF \A i \in 1..Len(s) : s[i] # sep THEN <<s>>
    ELSE LET i == CHOOSE j \in 1..Len(s) :
                     s[j] = sep /\ \A k \in 1..(j - 1) : s[k] # sep
         IN  <<SubSeq(s, 1, i - 1)>> \o split(SubSeq(s, i + 1, Len(s)), sep)

\* arr.pop() of a non-empty array: its last element.
pop(arr) == arr[Len(arr)]

\* s.substr(start, length): at most length characters from index start
\* (0-based); empty when start is beyond the end.
substr(s, start, length) ==
    SubSeq(s, start + 1, IF start + length < Len(s) THEN start + length ELSE Len(s))

----------------------------------------------------------------------------
(* Key generation, createProduct lines 116-120 *)

\* data.image.name.split('.').pop() || 'jpg': the empty string is falsy.
Ext(name) ==
    LET last == pop(split(name, "."))
    IN  IF last = <<>> THEN <<"j", "p", "g">> ELSE last

\* `${Date.now()}_${Math.random().toString(36).substr(2, 9)}`
BaseFilename(time, random36) ==
    NumberToString(time) \o <<"_">> \o substr(random36, 2, 9)

\* `${userId}/${baseFilename}.${ext}`
ImagePath(uid, baseFilename, ext) ==
    uid \o <<"/">> \o baseFilename \o <<".">> \o ext

\* `${userId}/${baseFilename}_thumb.${ext}`
ThumbnailPath(uid, baseFilename, ext) ==
    uid \o <<"/">> \o baseFilename \o <<"_", "t", "h", "u", "m", "b">> \o <<".">> \o ext

\* supabase.storage.from('products').getPublicUrl(path): the URL the storage
\* client returns for a key of the bucket.
getPublicUrl(path) == [bucket |-> "products", path |-> path]

----------------------------------------------------------------------------
(* Form data and its validation schema *)

\* Values a text field of the form can hold: absent, empty, non-empty.
FieldValues == {Undefined, Str(<<>>), Str(<<"x">>)}

\* Values the image field can hold: absent, a File, or a value that is no File.
ImageValues == {Undefined, Str(<<"x">>)} \cup {File(n) : n \in FileNames}

FormInputs ==
    [name : FieldValues, marketplace : FieldValues,
     marketplace_product_id : FieldValues, giveaway : FieldValues,
     image : ImageValues]

\* Mutant of StringMin1: the minimum length is not checked.
StringMin1_NoMinimum(x) == x.t = "string"

\* z.string().min(1, ...)
StringMin1(x) == x.t = "string" /\ Len(x.v) >= 1

\* z.instanceof(File).optional()
OptionalFile(x) == x.t = "undefined" \/ x.t = "File"

\* productSchema accepts d
productSchema(d) ==
    /\ StringMin1(d.name)
    /\ StringMin1(d.marketplace)
    /\ StringMin1(d.marketplace_product_id)
    /\ StringMin1(d.giveaway)
    /\ OptionalFile(d.image)

----------------------------------------------------------------------------
(* createProduct *)

Assets == {"image", "thumbnail"}

\* Mutant of Other: a call is taken for its own sibling, so that two calls
\* awaited together count as settled when one of them is.
Other_Same(which) == which

Other(which) == IF which = "image" THEN "thumbnail" ELSE "image"

NoCalls == [optimize |-> 0, thumbnail |-> 0, upload |-> 0, insert |-> 0, remove |-> 0]

NoPaths == [image |-> <<>>, thumbnail |-> <<>>]
NoneIssued == [image |-> NotIssued, thumbnail |-> NotIssued]
BothPending == [image |-> Pending, thumbnail |-> Pending]

Unsettled == [kind |-> "pending"]
Fulfilled(v) == [kind |-> "fulfilled", value |-> v]
\* A rejected promise: thrown is the value thrown inside the try block,
\* value the one the catch clause re-throws, which the caller receives.
RejectedWith(thrown, e) == [kind |-> "rejected", thrown |-> thrown, value |-> e]

\* return { success: true }
SuccessMarker == [success |-> TRUE]

\* What the promise of optimizeImage settles with (lines 20, 29, 32, 41).
OptimizeResults ==
    {Ok, Rejected(Error(<<"Failed to load image">>)),
         Rejected(Error(<<"Failed to get canvas context">>)),
         Rejected(Error(<<"Failed to create blob">>))}

\* What the promise of createThumbnail settles with (lines 76, 85, 88, 97).
ThumbnailResults ==
    {Ok, Rejected(Error(<<"Failed to load image for thumbnail">>)),
         Rejected(Error(<<"Failed to get canvas context">>)),
         Rejected(Error(<<"Failed to create thumbnail">>))}

\* Mutant of CatchRethrow: the caught value is re-thrown as it is.
CatchRethrow_AsIs(e) == e

\* catch (error) { throw error instanceof Error ? error : new Error(...) }
CatchRethrow(e) ==
    IF e.isError THEN e ELSE Error(<<"Failed to create product">>)

\* A throw inside the try block: the catch clause re-throws, which rejects
\* the promise of createProduct.
Fail(p, e) ==
    /\ pc' = [pc EXCEPT ![p] = "done"]
    /\ outcome' = [outcome EXCEPT ![p] = RejectedWith(e, CatchRethrow(e))]

\* Mutants of UploadFailed: only one of the two results is examined.
UploadFailed_ImageOnly(imageUpload, thumbnailUpload) ==
    imageUpload.t = "error"

UploadFailed_ThumbnailOnly(imageUpload, thumbnailUpload) ==
    thumbnailUpload.t = "error"

\* if (imageUpload.error) ... if (thumbnailUpload.error) ...: lines 140-141
UploadFailed(imageUpload, thumbnailUpload) ==
    imageUpload.t = "error" \/ thumbnailUpload.t = "error"

\* Mutant of UploadError: the thumbnail result is examined first.
UploadError_ThumbnailFirst(imageUpload, thumbnailUpload) ==
    IF thumbnailUpload.t = "error"
    THEN Error(<<"Failed to upload thumbnail: ">> \o thumbnailUpload.message)
    ELSE Error(<<"Failed to upload image: ">> \o imageUpload.message)

UploadError(imageUpload, thumbnailUpload) ==
    IF imageUpload.t = "error"
    THEN Error(<<"Failed to upload image: ">> \o imageUpload.message)
    ELSE Error(<<"Failed to upload thumbnail: ">> \o thumbnailUpload.message)

\* Mutant of InsertRow: the two URLs are exchanged.
InsertRow_Swapped(d, imageUrl, thumbnailUrl, uid) ==
    [name |-> d.name.v,
     marketplace |-> d.marketplace.v,
     marketplace_product_id |-> d.marketplace_product_id.v,
     giveaway |-> d.giveaway.v,
     image_path |-> thumbnailUrl,
     thumbnail_path |-> imageUrl,
     user_id |-> uid]

\* The row given to insert, lines 155-163.
InsertRow(d, imageUrl, thumbnailUrl, uid) ==
    [name |-> d.name.v,
     marketplace |-> d.marketplace.v,
     marketplace_product_id |-> d.marketplace_product_id.v,
     giveaway |-> d.giveaway.v,
     image_path |-> imageUrl,
     thumbnail_path |-> thumbnailUrl,
     user_id |-> uid]

\* The paths given to the two remove calls, lines 168-169.
RemoveTargets(imagePath, thumbnailPath) ==
    [image |-> imagePath, thumbnail |-> thumbnailPath]

\* new Error(`Failed to create product: ${insertError.message}`), line 172
InsertError(m) == Error(<<"Failed to create product: ">> \o m)

Exists(key) == \E b \in blobs : b.key = key

\* Mutant of UploadResults: upsert: true, an existing key is overwritten.
UploadResults_Upsert(key) ==
    {Ok} \cup {ErrResult(m) : m \in StorageErrMsgs} \cup {Rejected(v) : v \in RejectValues}

\* What an upload call with upsert: false can settle with.
UploadResults(key) ==
    (IF Exists(key) THEN {ErrResult(DuplicateMsg)}
     ELSE {Ok} \cup {ErrResult(m) : m \in StorageErrMsgs})
    \cup {Rejected(v) : v \in RejectValues}

InsertResults == {Ok} \cup {ErrResult(m) : m \in InsertErrMsgs} \cup {Rejected(v) : v \in RejectValues}

RemoveResults == {Ok} \cup {ErrResult(m) : m \in StorageErrMsgs} \cup {Rejected(v) : v \in RejectValues}

\* No form data yet.
NoData ==
    [name |-> Undefined, marketplace |-> Undefined,
     marketplace_product_id |-> Undefined, giveaway |-> Undefined,
     image |-> Undefined]

WorkflowInit ==
    /\ pc = [p \in Procs |-> "idle"]
    /\ data = [p \in Procs |-> NoData]
    /\ userId = [p \in Procs |-> <<>>]
    /\ paths = [p \in Procs |-> NoPaths]
    /\ upl = [p \in Procs |-> NoneIssued]
    /\ ins = [p \in Procs |-> [call |-> NotIssued, row |-> Undefined]]
    /\ del = [p \in Procs |-> [call |-> NoneIssued, targets |-> NoPaths]]
    /\ outcome = [p \in Procs |-> Unsettled]
    /\ calls = [p \in Procs |-> NoCalls]
    /\ blobs = {}
    /\ records = {}
    /\ now = 0

\* Mutant of ImageMissing: the presence of the image is not checked.
ImageMissing_Unchecked(d) == FALSE

\* !data.image, line 106: undefined and the empty string are falsy, a File
\* object is truthy.
ImageMissing(d) ==
    \/ d.image.t = "undefined"
    \/ (d.image.t = "string" /\ d.image.v = <<>>)

\* createProduct(d, u) up to its first await, lines 104-111.
createProduct(p, d, u) ==
    /\ userId' = [userId EXCEPT ![p] = u]
    /\ IF ImageMissing(d)
       THEN /\ Fail(p, Error(<<"Product image is required">>))
            /\ UNCHANGED calls
       ELSE /\ pc' = [pc EXCEPT ![p] = "optimizing"]
            /\ calls' = [calls EXCEPT ![p].optimize = @ + 1]
            /\ UNCHANGED outcome

\* The form is submitted: the data is validated against productSchema, and
\* createProduct is called only with data the schema accepts.
Submit(p) ==
    /\ pc[p] = "idle"
    /\ \E d \in FormInputs, u \in Users :
         /\ data' = [data EXCEPT ![p] = d]
         /\ IF productSchema(d)
            THEN createProduct(p, d, u)
            ELSE /\ pc' = [pc EXCEPT ![p] = "invalid"]
                 /\ UNCHANGED <<userId, outcome, calls>>
    /\ UNCHANGED <<paths, upl, ins, del, blobs, records, now, ip, kg, nav>>

\* optimizeImage settles; on success createThumbnail is called, lines 111-114.
OptimizeDone(p) ==
    /\ pc[p] = "optimizing"
    /\ \E r \in OptimizeResults :
         IF r = Ok
         THEN /\ pc' = [pc EXCEPT ![p] = "thumbnailing"]
              /\ calls' = [calls EXCEPT ![p].thumbnail = @ + 1]
              /\ UNCHANGED outcome
         ELSE /\ Fail(p, r.value)
              /\ UNCHANGED calls
    /\ UNCHANGED <<data, userId, paths, upl, ins, del, blobs, records, now, ip, kg, nav>>

\* createThumbnail settles; on success the keys are generated and both
\* uploads are dispatched, lines 114-138.
ThumbnailDone(p) ==
    /\ pc[p] = "thumbnailing"
    /\ \E r \in ThumbnailResults :
         IF r = Ok
         THEN \E t \in now..MaxTime, rnd \in RandomStrings :
                LET ext == Ext(data[p].image.name)
                    baseFilename == BaseFilename(t, rnd)
                IN  /\ now' = t
                    /\ paths' = [paths EXCEPT ![p] =
                          [image |-> ImagePath(userId[p], baseFilename, ext),
                           thumbnail |-> ThumbnailPath(userId[p], baseFilename, ext)]]
                    /\ upl' = [upl EXCEPT ![p] = BothPending]
                    /\ calls' = [calls EXCEPT ![p].upload = @ + 2]
                    /\ pc' = [pc EXCEPT ![p] = "uploading"]
                    /\ UNCHANGED outcome
         ELSE /\ Fail(p, r.value)
              /\ UNCHANGED <<paths, upl, calls, now>>
    /\ UNCHANGED <<data, userId, ins, del, blobs, records, ip, kg, nav>>

\* Both uploads have returned: lines 140-163, up to the await of the insert.
AfterUploads(p, imageUpload, thumbnailUpload) ==
    IF UploadFailed(imageUpload, thumbnailUpload)
    THEN /\ Fail(p, UploadError(imageUpload, thumbnailUpload))
         /\ UNCHANGED <<ins, calls>>
    ELSE /\ ins' = [ins EXCEPT ![p] =
                [call |-> Pending,
                 row |-> InsertRow(data[p], getPublicUrl(paths[p].image),
                                   getPublicUrl(paths[p].thumbnail), userId[p])]]
         /\ calls' = [calls EXCEPT ![p].insert = @ + 1]
         /\ pc' = [pc EXCEPT ![p] = "inserting"]
         /\ UNCHANGED outcome

\* One upload call settles.  Promise.all rejects with the first rejection and
\* is fulfilled when both calls are; a call that settles after createProduct
\* has ended only changes the storage.
UploadDone(p, which) ==
    /\ upl[p][which] = Pending
    /\ \E r \in UploadResults(paths[p][which]) :
         LET u2 == [upl[p] EXCEPT ![which] = r]
         IN  /\ upl' = [upl EXCEPT ![p] = u2]
             /\ blobs' = IF r = Ok
                         THEN blobs \cup {[key |-> paths[p][which], content |-> which, by |-> p]}
                         ELSE blobs
             /\ IF pc[p] # "uploading"
                THEN UNCHANGED <<pc, outcome, ins, calls>>
                ELSE IF r.t = "rejected"
                THEN Fail(p, r.value) /\ UNCHANGED <<ins, calls>>
                ELSE IF u2[Other(which)] = Pending
                THEN UNCHANGED <<pc, outcome, ins, calls>>
                ELSE AfterUploads(p, u2.image, u2.thumbnail)
    /\ UNCHANGED <<data, userId, paths, del, records, now, ip, kg, nav>>

\* The insert settles, lines 153-175; on an error result both remove calls
\* are dispatched.
InsertDone(p) ==
    /\ pc[p] = "inserting"
    /\ ins[p].call = Pending
    /\ \E r \in InsertResults :
         /\ ins' = [ins EXCEPT ![p].call = r]
         /\ records' = IF r = Ok THEN records \cup {[row |-> ins[p].row, by |-> p]}
                       ELSE records
         /\ CASE r.t = "ok" ->
                   /\ pc' = [pc EXCEPT ![p] = "done"]
                   /\ outcome' = [outcome EXCEPT ![p] = Fulfilled(SuccessMarker)]
                   /\ UNCHANGED <<del, calls>>
              [] r.t = "error" ->
                   /\ del' = [del EXCEPT ![p] =
                         [call |-> BothPending,
                          targets |-> RemoveTargets(paths[p].image, paths[p].thumbnail)]]
                   /\ calls' = [calls EXCEPT ![p].remove = @ + 2]
                   /\ pc' = [pc EXCEPT ![p] = "cleanup"]
                   /\ UNCHANGED outcome
              [] r.t = "rejected" ->
                   /\ Fail(p, r.value)
                   /\ UNCHANGED <<del, calls>>
    /\ UNCHANGED <<data, userId, paths, upl, blobs, now, ip, kg, nav>>

\* Mutant of RemovesFulfilled: the first remove call to return is enough.
RemovesFulfilled_First(d2) ==
    \E a \in Assets : d2[a].t \in {"ok", "error"}

\* await Promise.all([remove, remove]), line 167: fulfilled when both remove
\* calls have returned a result.
RemovesFulfilled(d2) ==
    \A a \in Assets : d2[a].t \in {"ok", "error"}

\* One remove call settles, lines 167-172.  The calls are awaited with
\* Promise.all: a rejection is thrown, an error result is ignored.
RemoveDone(p, which) ==
    /\ del[p].call[which] = Pending
    /\ \E r \in RemoveResults :
         LET d2 == [del[p].call EXCEPT ![which] = r]
         IN  /\ del' = [del EXCEPT ![p].call = d2]
             /\ blobs' = IF r = Ok
                         THEN {b \in blobs : b.key # del[p].targets[which]}
                         ELSE blobs
             /\ IF pc[p] # "cleanup"
                THEN UNCHANGED <<pc, outcome>>
                ELSE IF r.t = "rejected"
                THEN Fail(p, r.value)
                ELSE IF ~RemovesFulfilled(d2)
                THEN UNCHANGED <<pc, outcome>>
                ELSE Fail(p, InsertError(ins[p].call.message))
    /\ UNCHANGED <<data, userId, paths, upl, ins, calls, records, now, ip, kg, nav>>

WorkflowNext ==
    \E p \in Procs :
        \/ Submit(p)
        \/ OptimizeDone(p)
        \/ ThumbnailDone(p)
        \/ \E which \in Assets : UploadDone(p, which)
        \/ InsertDone(p)
        \/ \E which \in Assets : RemoveDone(p, which)

----------------------------------------------------------------------------
(* optimizeImage and createThumbnail, callback by callback *)

\* Image widths and heights are in 1..MaxDim.
MaxDim == 401

maxWidth == 200
maxHeight == 200

ImageFns == {"optimizeImage", "createThumbnail"}

\* Mutant of MathRound: Math.floor in its place.
MathRound_Floor(num, den) == num \div den

\* Math.round(num / den) for num >= 0 and den > 0: halves round up.
MathRound(num, den) == (2 * num + den) \div (2 * den)

\* The canvas size createThumbnail computes, lines 57-72.
ThumbnailSize(w, h) ==
    IF w > h
    THEN [width |-> maxWidth, height |-> MathRound(h * maxWidth, w)]
    ELSE [width |-> MathRound(w * maxHeight, h), height |-> maxHeight]

\* The canvas size optimizeImage sets, lines 16-17.
OptimizedSize(w, h) == [width |-> w, height |-> h]

CanvasSize(fn, w, h) ==
    IF fn = "createThumbnail" THEN ThumbnailSize(w, h) ELSE OptimizedSize(w, h)

LoadErrorMessage(fn) ==
    IF fn = "createThumbnail" THEN <<"Failed to load image for thumbnail">>
    ELSE <<"Failed to load image">>

BlobErrorMessage(fn) ==
    IF fn = "createThumbnail" THEN <<"Failed to create thumbnail">>
    ELSE <<"Failed to create blob">>

IpIdle ==
    [fn |-> "none", pc |-> "idle", w |-> 0, h |-> 0,
     created |-> 0, revoked |-> 0,
     canvas |-> [width |-> 0, height |-> 0],
     settled |-> 0, result |-> Pending]

\* resolve or reject of the promise: only the first call settles it.
Settle(s, r) ==
    [s EXCEPT !.settled = @ + 1,
              !.result = IF s.settled = 0 THEN r ELSE @]

\* The promise executor, lines 6-8 and 44 (49-51 and 100): an object URL is
\* created and set as the source of the image.
ImgCall ==
    /\ ip.pc = "idle"
    /\ \E fn \in ImageFns :
         ip' = [ip EXCEPT !.fn = fn, !.pc = "loading", !.created = @ + 1]
    /\ UNCHANGED <<wfVars, kg, nav>>

\* img.onload, lines 10-37 (53-93): the image has loaded with some size.
ImgOnload ==
    /\ ip.pc = "loading"
    /\ \E w \in 1..MaxDim, h \in 1..MaxDim, ctx \in {"context", "null"} :
         LET loaded == [ip EXCEPT !.w = w, !.h = h, !.revoked = @ + 1,
                                  !.canvas = CanvasSize(ip.fn, w, h)]
         IN  IF ctx = "null"
             THEN ip' = [Settle(loaded, Rejected(Error(<<"Failed to get canvas context">>)))
                            EXCEPT !.pc = "returned"]
             ELSE ip' = [loaded EXCEPT !.pc = "encoding"]
    /\ UNCHANGED <<wfVars, kg, nav>>

\* Mutant of ImgOnerror: the object URL is not revoked when the load fails.
ImgOnerror_NoRevoke ==
    /\ ip.pc = "loading"
    /\ ip' = [Settle(ip, Rejected(Error(LoadErrorMessage(ip.fn))))
                 EXCEPT !.pc = "returned"]
    /\ UNCHANGED <<wfVars, kg, nav>>

\* img.onerror, lines 39-42 (95-98).
ImgOnerror ==
    /\ ip.pc = "loading"
    /\ ip' = [Settle([ip EXCEPT !.revoked = @ + 1],
                     Rejected(Error(LoadErrorMessage(ip.fn))))
                 EXCEPT !.pc = "returned"]
    /\ UNCHANGED <<wfVars, kg, nav>>

\* The callback of canvas.toBlob, lines 27-33 (83-89).
ToBlobCallback ==
    /\ ip.pc = "encoding"
    /\ \E blob \in {"blob", "null"} :
         IF blob = "null"
         THEN ip' = [Settle(ip, Rejected(Error(BlobErrorMessage(ip.fn))))
                        EXCEPT !.pc = "returned"]
         ELSE ip' = [Settle(ip, Ok) EXCEPT !.pc = "returned"]
    /\ UNCHANGED <<wfVars, kg, nav>>

ImageNext ==
    \/ ImgCall
    \/ ImgOnload
    \/ ImgOnerror
    \/ ToBlobCallback

----------------------------------------------------------------------------
(* The key generation of createProduct alone, over more file names *)

\* File names of at most MaxNameLen characters.
MaxNameLen == 3

\* Date.now() returns values in 0..MaxKeyTime.
MaxKeyTime == 10

NameChars == {"a", "."}

KeyFileNames ==
    UNION {[1..n -> NameChars] : n \in 0..MaxNameLen}

KeyUsers == {<<"u">>, <<"v">>}

KeyRandomStrings == RandomStrings \cup {<<"0">>}

KgIdle ==
    [pc |-> "idle", name |-> <<>>, uid |-> <<>>, time |-> 0, random |-> <<>>,
     ext |-> <<>>, baseFilename |-> <<>>, imagePath |-> <<>>, thumbnailPath |-> <<>>]

\* createProduct lines 117-120 for one file name, user, time and random draw.
GenerateKeys ==
    /\ kg.pc = "input"
    /\ LET ext == Ext(kg.name)
           baseFilename == BaseFilename(kg.time, kg.random)
       IN  kg' = [kg EXCEPT !.pc = "generated",
                            !.ext = ext,
                            !.baseFilename = baseFilename,
                            !.imagePath = ImagePath(kg.uid, baseFilename, ext),
                            !.thumbnailPath = ThumbnailPath(kg.uid, baseFilename, ext)]
    /\ UNCHANGED <<wfVars, ip, nav>>

----------------------------------------------------------------------------
(* The dashboard router, DashboardPage.tsx *)

\* The browser's history holds at most MaxHistory entries.
MaxHistory == 3

\* The <Route> elements of <Routes>, in order: path and element.
RouteTable ==
    << [path |-> <<"/">>, element |-> "Dashboard"],
       [path |-> <<"/", "r", "e", "v", "i", "e", "w", "s">>, element |-> "ReviewsPage"],
       [path |-> <<"/", "s", "u", "r", "v", "e", "y", "s">>, element |-> "SurveysPage"],
       [path |-> <<"/", "p", "r", "o", "d", "u", "c", "t", "s">>, element |-> "ProductsPage"],
       [path |-> <<"/", "p", "r", "o", "d", "u", "c", "t", "s", "/", "n", "e", "w">>,
        element |-> "AddProductPage"],
       [path |-> <<"/", "p", "a", "c", "k", "a", "g", "e", "-", "i", "n", "s", "e", "r", "t", "s">>,
        element |-> "PackageInsertsPage"] >>

\* The locations the browser is sent to: the six paths, and three others.
Locations ==
    {RouteTable[i].path : i \in 1..Len(RouteTable)}
    \cup { <<"/", "x">>,
           <<"/", "p", "r", "o", "d", "u", "c", "t", "s", "/", "x">>,
           <<"/", "n", "e", "w">> }

NonEmpty(seg) == seg # <<>>

\* The segments of a path: the non-empty parts between the slashes.
Segments(path) == SelectSeq(split(path, "/"), NonEmpty)

\* Mutant of Matches: the route path matches as a prefix of the location.
Matches_Prefix(routePath, pathname) ==
    LET r == Segments(routePath)
        l == Segments(pathname)
    IN  Len(r) <= Len(l) /\ SubSeq(l, 1, Len(r)) = r

\* A <Route path> without a trailing * matches a location whose segments
\* are exactly its own.
Matches(routePath, pathname) == Segments(routePath) = Segments(pathname)

\* What <Routes> renders at a location: the element of the matching route,
\* and nothing when no route matches.
Render(pathname) ==
    LET hits == {i \in 1..Len(RouteTable) : Matches(RouteTable[i].path, pathname)}
    IN  IF hits = {} THEN "none"
        ELSE RouteTable[CHOOSE i \in hits : \A j \in hits : i <= j].element

NavStart == [entries |-> << <<"/">> >>, index |-> 1, page |-> Render(<<"/">>)]

\* The browser goes to a location: the entries after the current one are
\* dropped, the location is pushed, and <Routes> renders again.
Navigate ==
    /\ nav.index < MaxHistory
    /\ \E l \in Locations :
         nav' = [entries |-> Append(SubSeq(nav.entries, 1, nav.index), l),
                 index |-> nav.index + 1,
                 page |-> Render(l)]
    /\ UNCHANGED <<wfVars, ip, kg>>

\* The browser goes back one entry.
GoBack ==
    /\ nav.index > 1
    /\ nav' = [nav EXCEPT !.index = @ - 1, !.page = Render(nav.entries[nav.index - 1])]
    /\ UNCHANGED <<wfVars, ip, kg>>

\* The browser goes forward one entry.
GoForward ==
    /\ nav.index < Len(nav.entries)
    /\ nav' = [nav EXCEPT !.index = @ + 1, !.page = Render(nav.entries[nav.index + 1])]
    /\ UNCHANGED <<wfVars, ip, kg>>

RouterNext ==
    \/ Navigate
    \/ GoBack
    \/ GoForward

----------------------------------------------------------------------------
(* Specifications *)

\* The workflow: concurrent invocations of createProduct.
Init == WorkflowInit /\ ip = IpIdle /\ kg = KgIdle /\ nav = NavStart

Next == WorkflowNext

Spec == Init /\ [][Next]_vars

\* Every external asynchronous operation that is pending eventually completes:
\* the image processing, the uploads, the insert and the removes.
Completion ==
    \A p \in Procs :
        /\ WF_vars(OptimizeDone(p))
        /\ WF_vars(ThumbnailDone(p))
        /\ WF_vars(InsertDone(p))
        /\ \A which \in Assets :
             WF_vars(UploadDone(p, which)) /\ WF_vars(RemoveDone(p, which))

\* Both invocations have been called with an accepted form holding an image:
\* the state after two submissions, each suspended in optimizeImage.
StartedForm ==
    [name |-> Str(<<"x">>), marketplace |-> Str(<<"x">>),
     marketplace_product_id |-> Str(<<"x">>), giveaway |-> Str(<<"x">>),
     image |-> File(<<"a", ".", "p", "n", "g">>)]

InitLive ==
    /\ pc = [p \in Procs |-> "optimizing"]
    /\ data = [p \in Procs |-> StartedForm]
    /\ userId = [p \in Procs |-> <<"u">>]
    /\ paths = [p \in Procs |-> NoPaths]
    /\ upl = [p \in Procs |-> NoneIssued]
    /\ ins = [p \in Procs |-> [call |-> NotIssued, row |-> Undefined]]
    /\ del = [p \in Procs |-> [call |-> NoneIssued, targets |-> NoPaths]]
    /\ outcome = [p \in Procs |-> Unsettled]
    /\ calls = [p \in Procs |-> [NoCalls EXCEPT !.optimize = 1]]
    /\ blobs = {}
    /\ records = {}
    /\ now = 0
    /\ ip = IpIdle /\ kg = KgIdle /\ nav = NavStart

\* The completions of the external operations.
NextLive ==
    \E p \in Procs :
        \/ OptimizeDone(p)
        \/ ThumbnailDone(p)
        \/ \E which \in Assets : UploadDone(p, which)
        \/ InsertDone(p)
        \/ \E which \in Assets : RemoveDone(p, which)

\* The workflow when every external operation eventually completes.
SpecLive == InitLive /\ [][NextLive]_vars /\ Completion

\* One call of optimizeImage or createThumbnail.
InitImage == WorkflowInit /\ ip = IpIdle /\ kg = KgIdle /\ nav = NavStart

NextImage == ImageNext

SpecImage == InitImage /\ [][NextImage]_vars

\* One run of the key generation.
InitKeys ==
    /\ WorkflowInit
    /\ ip = IpIdle
    /\ nav = NavStart
    /\ \E name \in KeyFileNames, uid \in KeyUsers, t \in 0..MaxKeyTime,
          rnd \in KeyRandomStrings :
         kg = [KgIdle EXCEPT !.pc = "input", !.name = name, !.uid = uid,
                             !.time = t, !.random = rnd]

NextKeys == GenerateKeys

SpecKeys == InitKeys /\ [][NextKeys]_vars

\* The dashboard router.
InitRouter == WorkflowInit /\ ip = IpIdle /\ kg = KgIdle /\ nav = NavStart

NextRouter == RouterNext

SpecRouter == InitRouter /\ [][NextRouter]_vars

----------------------------------------------------------------------------
(* Properties of the workflow *)

Settled(p) == pc[p] = "done"

\* Both upload calls of p have returned a result (neither is pending or rejected).
BothReturned(p) ==
    \A a \in Assets : upl[p][a].t \in {"ok", "error"}

AnyUploadRejected(p) == \E a \in Assets : upl[p][a].t = "rejected"

\* The promise of p is rejected with new Error(m).
FailsWith(p, m) ==
    /\ outcome[p].kind = "rejected"
    /\ outcome[p].value = [isError |-> TRUE, message |-> m]

\* C1 (as stated): if either upload returned an error, no insert is called and
\* the invocation fails with 'Failed to upload image' when the image upload
\* failed and with 'Failed to upload thumbnail' when the thumbnail upload failed.
C1_AsStated ==
    \A p \in Procs :
        (Settled(p) /\ BothReturned(p)
                    /\ (upl[p].image.t = "error" \/ upl[p].thumbnail.t = "error")) =>
            /\ calls[p].insert = 0
            /\ upl[p].image.t = "error" =>
                   FailsWith(p, <<"Failed to upload image: ">> \o upl[p].image.message)
            /\ upl[p].thumbnail.t = "error" =>
                   FailsWith(p, <<"Failed to upload thumbnail: ">> \o upl[p].thumbnail.message)

\* C1 (amended): if either upload returned an error, no insert is ever called.
\* When both uploads returned, the invocation fails with 'Failed to upload
\* image: m' if the image upload returned the error m, and with 'Failed to
\* upload thumbnail: m' if only the thumbnail upload returned an error.  When
\* the other upload rejected instead, the invocation fails with that rejection.
C1_UploadErrorStopsBeforeInsert ==
    \A p \in Procs :
        (upl[p].image.t = "error" \/ upl[p].thumbnail.t = "error") =>
            /\ calls[p].insert = 0
            /\ ins[p].call.t = "none"
            /\ \A r \in records : r.by # p
            /\ BothReturned(p) =>
                 /\ Settled(p)
                 /\ IF upl[p].image.t = "error"
                    THEN FailsWith(p, <<"Failed to upload image: ">> \o upl[p].image.message)
                    ELSE FailsWith(p, <<"Failed to upload thumbnail: ">> \o upl[p].thumbnail.message)
            /\ AnyUploadRejected(p) =>
                 /\ Settled(p)
                 /\ outcome[p].kind = "rejected"
                 /\ \E a \in Assets :
                      /\ upl[p][a].t = "rejected"
                      /\ outcome[p].thrown = upl[p][a].value

\* The thumbnail upload alone returned an error and the invocation has failed.
C1_Witness ==
    \E p \in Procs :
        /\ Settled(p)
        /\ upl[p].image.t = "ok"
        /\ upl[p].thumbnail.t = "error"
        /\ FailsWith(p, <<"Failed to upload thumbnail: ">> \o upl[p].thumbnail.message)

\* C2 (as stated): if both uploads succeed and the insert returns an error,
\* exactly two remove calls are issued, one for the image key and one for the
\* thumbnail key of this invocation, and the invocation fails with 'Failed to
\* create product: ' followed by the message of the insert error.
C2_AsStated ==
    \A p \in Procs :
        (Settled(p) /\ upl[p].image.t = "ok" /\ upl[p].thumbnail.t = "ok"
                    /\ ins[p].call.t = "error") =>
            /\ calls[p].remove = 2
            /\ del[p].targets = [image |-> paths[p].image, thumbnail |-> paths[p].thumbnail]
            /\ FailsWith(p, <<"Failed to create product: ">> \o ins[p].call.message)

\* The rows of the record store that invocation p inserted.
RecordsOf(p) == {r \in records : r.by = p}

\* C3: an invocation whose image processing, uploads and insert all succeeded
\* has performed exactly one insert, of a row whose image_path and
\* thumbnail_path are the public URLs of the image key and the thumbnail key
\* it generated and whose user_id is the caller's userId; it has issued no
\* remove call and has returned the success marker.
C3_SuccessInsertsOneRow ==
    \A p \in Procs :
        (ins[p].call.t = "ok") =>
            /\ data[p].image.t = "File"
            /\ upl[p].image.t = "ok" /\ upl[p].thumbnail.t = "ok"
            /\ calls[p].insert = 1
            /\ Cardinality(RecordsOf(p)) = 1
            /\ \A r \in RecordsOf(p) :
                 /\ r.row.image_path = getPublicUrl(paths[p].image)
                 /\ r.row.thumbnail_path = getPublicUrl(paths[p].thumbnail)
                 /\ r.row.image_path # r.row.thumbnail_path
                 /\ r.row.user_id = userId[p]
            /\ calls[p].remove = 0
            /\ Settled(p)
            /\ outcome[p] = [kind |-> "fulfilled", value |-> [success |-> TRUE]]

C3_Witness ==
    \E p \in Procs :
        /\ ins[p].call.t = "ok"
        /\ outcome[p].kind = "fulfilled"
        /\ RecordsOf(p) # {}

\* C4: every record of the store references the public URLs of two keys that
\* the inserting invocation itself uploaded successfully, and no insert is
\* issued unless both uploads of the invocation have succeeded before.
C4_RecordsReferenceUploadedKeys ==
    /\ \A r \in records :
         /\ upl[r.by].image.t = "ok"
         /\ upl[r.by].thumbnail.t = "ok"
         /\ r.row.image_path.path = paths[r.by].image
         /\ r.row.thumbnail_path.path = paths[r.by].thumbnail
    /\ \A p \in Procs :
         ins[p].call.t # "none" => (upl[p].image.t = "ok" /\ upl[p].thumbnail.t = "ok")

\* Two invocations have both committed a record.
C4_Witness ==
    \A p \in Procs : RecordsOf(p) # {}

\* C5: with data.image absent, createProduct fails at once with 'Product
\* image is required' and issues no image-processing step, no upload, no
\* insert and no remove.
C5_MissingImageFailsFirst ==
    \A p \in Procs :
        (pc[p] \notin {"idle", "invalid"} /\ data[p].image.t = "undefined") =>
            /\ Settled(p)
            /\ FailsWith(p, <<"Product image is required">>)
            /\ calls[p] = [optimize |-> 0, thumbnail |-> 0, upload |-> 0,
                           insert |-> 0, remove |-> 0]
            /\ upl[p] = NoneIssued /\ ins[p].call = NotIssued /\ del[p].call = NoneIssued

C5_Witness ==
    \E p \in Procs :
        /\ data[p].image.t = "undefined"
        /\ FailsWith(p, <<"Product image is required">>)

\* C6 (as stated): two concurrent invocations with the same userId and the
\* same file name never share a storage key.
C6_AsStated ==
    \A p, q \in Procs :
        (/\ p # q
         /\ pc[p] = "uploading" /\ pc[q] = "uploading"
         /\ userId[p] = userId[q]
         /\ data[p].image.name = data[q].image.name) =>
            {paths[p].image, paths[p].thumbnail}
                \cap {paths[q].image, paths[q].thumbnail} = {}

TextFields == {"name", "marketplace", "marketplace_product_id", "giveaway"}

\* Form data with a text field missing or empty, or with an image that is
\* present and is not a File.
InvalidForm(d) ==
    \/ \E f \in TextFields : d[f].t = "undefined" \/ d[f] = [t |-> "string", v |-> <<>>]
    \/ d.image.t \notin {"undefined", "File"}

\* C7: for submitted form data with a text field missing or empty or with an
\* image that is no File, createProduct is never called: no image processing,
\* upload, insert or remove call is made.
C7_InvalidFormMakesNoCall ==
    \A p \in Procs :
        (pc[p] # "idle" /\ InvalidForm(data[p])) =>
            /\ pc[p] = "invalid"
            /\ calls[p] = [optimize |-> 0, thumbnail |-> 0, upload |-> 0,
                           insert |-> 0, remove |-> 0]
            /\ upl[p] = NoneIssued /\ ins[p].call = NotIssued /\ del[p].call = NoneIssued
            /\ outcome[p].kind = "pending"

\* A form with an empty name was submitted, and one with a non-File image.
C7_Witness ==
    /\ \E p \in Procs : pc[p] = "invalid" /\ data[p].name = [t |-> "string", v |-> <<>>]
    /\ \E p \in Procs : pc[p] = "invalid" /\ data[p].image.t = "string"

\* C8: every invocation that has ended has either returned the success marker
\* after a successful insert, or rejected with an Error: the thrown value
\* itself when it is an Error, and new Error('Failed to create product') when
\* it is not.
C8_FailuresAreErrors ==
    \A p \in Procs :
        Settled(p) =>
            \/ /\ outcome[p] = [kind |-> "fulfilled", value |-> [success |-> TRUE]]
               /\ ins[p].call.t = "ok"
            \/ /\ outcome[p].kind = "rejected"
               /\ outcome[p].value.isError
               /\ outcome[p].thrown.isError => outcome[p].value = outcome[p].thrown
               /\ ~outcome[p].thrown.isError =>
                      outcome[p].value =
                          [isError |-> TRUE, message |-> <<"Failed to create product">>]

\* Some call rejected with a value that is not an Error, and some with an Error.
C8_Witness ==
    /\ \E p \in Procs : Settled(p) /\ outcome[p].kind = "rejected"
                                   /\ ~outcome[p].thrown.isError
    /\ \E p \in Procs : Settled(p) /\ outcome[p].kind = "rejected"
                                   /\ outcome[p].thrown.isError

----------------------------------------------------------------------------
(* Properties of the key generation *)

EndsWith(s, suffix) ==
    /\ Len(s) >= Len(suffix)
    /\ SubSeq(s, Len(s) - Len(suffix) + 1, Len(s)) = suffix

StartsWith(s, prefix) ==
    /\ Len(s) >= Len(prefix)
    /\ SubSeq(s, 1, Len(prefix)) = prefix

HasDot(name) == \E i \in 1..Len(name) : name[i] = "."

\* The characters after the last '.' of a name that has one.
AfterLastDot(name) ==
    LET i == CHOOSE j \in 1..Len(name) :
                 name[j] = "." /\ \A k \in (j + 1)..Len(name) : name[k] # "."
    IN  SubSeq(name, i + 1, Len(name))

\* The original extension of a file name; empty when it has none.
OriginalExt(name) == IF HasDot(name) THEN AfterLastDot(name) ELSE <<>>

\* C9 (as stated): both keys end in the original extension of the file name,
\* and in 'jpg' when the name has none; both are under '{userId}/' and share
\* the base file name, the thumbnail key having '_thumb' before the extension.
C9_AsStated ==
    kg.pc = "generated" =>
        LET e == IF OriginalExt(kg.name) = <<>> THEN <<"j", "p", "g">>
                 ELSE OriginalExt(kg.name)
        IN  /\ kg.imagePath = kg.uid \o <<"/">> \o kg.baseFilename \o <<".">> \o e
            /\ kg.thumbnailPath =
                   kg.uid \o <<"/">> \o kg.baseFilename
                          \o <<"_", "t", "h", "u", "m", "b", ".">> \o e
            /\ StartsWith(kg.imagePath, kg.uid \o <<"/">>)
            /\ StartsWith(kg.thumbnailPath, kg.uid \o <<"/">>)
            /\ EndsWith(kg.imagePath, <<".">> \o e)
            /\ EndsWith(kg.thumbnailPath, <<"_", "t", "h", "u", "m", "b", ".">> \o e)

----------------------------------------------------------------------------
(* Properties of the image processor *)

\* r = Math.round(num / den): r - 1/2 <= num / den < r + 1/2.
IsRounded(r, num, den) ==
    /\ 2 * r * den - den <= 2 * num
    /\ 2 * num < 2 * r * den + den

ThumbnailLoaded ==
    ip.fn = "createThumbnail" /\ ip.pc \in {"encoding", "returned"} /\ ip.w > 0

\* The size createThumbnail gives the canvas is as the formula of C10 says.
ThumbnailFormula ==
    /\ ip.w > ip.h =>
           ip.canvas.width = 200 /\ IsRounded(ip.canvas.height, ip.h * 200, ip.w)
    /\ ip.w <= ip.h =>
           ip.canvas.height = 200 /\ IsRounded(ip.canvas.width, ip.w * 200, ip.h)
    /\ (ip.w = 400 /\ ip.h = 200) => ip.canvas = [width |-> 200, height |-> 100]
    /\ (ip.w = 200 /\ ip.h = 400) => ip.canvas = [width |-> 100, height |-> 200]
    /\ (ip.w = 200 /\ ip.h = 200) => ip.canvas = [width |-> 200, height |-> 200]

\* C10 (as stated): the longer side becomes 200 and the other side is
\* rounded in proportion, and both output dimensions are in 1..200.
C10_AsStated ==
    ThumbnailLoaded =>
        /\ ThumbnailFormula
        /\ ip.canvas.width \in 1..200
        /\ ip.canvas.height \in 1..200

\* C10 (amended): the longer side becomes 200 and the other side is rounded
\* in proportion; both output dimensions are at most 200, and at least 1
\* unless the longer input side is more than 400 times the shorter one, in
\* which case the shorter output side is 0.
C10_ThumbnailSize ==
    ThumbnailLoaded =>
        /\ ThumbnailFormula
        /\ ip.canvas.width \in 0..200
        /\ ip.canvas.height \in 0..200
        /\ ip.canvas.height = 0 <=> ip.w > 400 * ip.h
        /\ ip.canvas.width = 0 <=> ip.h > 400 * ip.w

\* A 401 by 1 image has been loaded by createThumbnail.
C10_Witness ==
    /\ ThumbnailLoaded
    /\ ip.w = 401 /\ ip.h = 1
    /\ ip.canvas = [width |-> 200, height |-> 0]

----------------------------------------------------------------------------
(* Properties of the dashboard router *)

Location == nav.entries[nav.index]

ProductsPath == <<"/", "p", "r", "o", "d", "u", "c", "t", "s">>

\* C11: the router shows a page at exactly the six paths '/', '/reviews',
\* '/surveys', '/products', '/products/new' and '/package-inserts', a
\* different page at each; '/products/new' shows the add-product page.
C11_SixDistinctPages ==
    /\ Location = <<"/">> <=> nav.page = "Dashboard"
    /\ Location = <<"/", "r", "e", "v", "i", "e", "w", "s">> <=> nav.page = "ReviewsPage"
    /\ Location = <<"/", "s", "u", "r", "v", "e", "y", "s">> <=> nav.page = "SurveysPage"
    /\ Location = ProductsPath <=> nav.page = "ProductsPage"
    /\ Location = ProductsPath \o <<"/", "n", "e", "w">> <=> nav.page = "AddProductPage"
    /\ Location = <<"/", "p", "a", "c", "k", "a", "g", "e", "-", "i", "n", "s", "e", "r", "t", "s">>
           <=> nav.page = "PackageInsertsPage"
    /\ nav.page \in {"Dashboard", "ReviewsPage", "SurveysPage", "ProductsPage",
                     "AddProductPage", "PackageInsertsPage", "none"}
    /\ nav.page = "none" <=>
           Location \in {<<"/", "x">>, ProductsPath \o <<"/", "x">>, <<"/", "n", "e", "w">>}

\* The browser went from '/products' to '/products/new'.
C11_Witness ==
    /\ nav.index >= 2
    /\ nav.entries[nav.index - 1] = ProductsPath
    /\ Location = ProductsPath \o <<"/", "n", "e", "w">>
    /\ nav.page = "AddProductPage"

----------------------------------------------------------------------------
(* Properties of the compensation and of the order of the steps *)

RemoveFailed(p) == \E a \in Assets : del[p].call[a].t \in {"error", "rejected"}

\* C12 (as stated): when the insert returned an error and a remove call
\* then failed, by an error result or by rejecting, the invocation still
\* fails with the insert error.
C12_AsStated ==
    \A p \in Procs :
        (Settled(p) /\ ins[p].call.t = "error" /\ RemoveFailed(p)) =>
            FailsWith(p, <<"Failed to create product: ">> \o ins[p].call.message)

\* C13 (as stated): the insert error is raised without waiting for the remove
\* calls: once the insert has returned an error the caller has the insert
\* error, whatever the state of the two remove calls.
C13_AsStated ==
    \A p \in Procs :
        ins[p].call.t = "error" =>
            FailsWith(p, <<"Failed to create product: ">> \o ins[p].call.message)

\* C13 (amended): createProduct waits for the two remove calls before it
\* raises the insert error: the caller has the insert error only when both
\* remove calls have returned, and while one is pending and none has
\* rejected the invocation has not ended.
C13_InsertErrorWaitsForRemoves ==
    \A p \in Procs :
        ins[p].call.t = "error" =>
            /\ outcome[p].kind # "fulfilled"
            /\ FailsWith(p, <<"Failed to create product: ">> \o ins[p].call.message) =>
                   \A a \in Assets : del[p].call[a].t \in {"ok", "error"}
            /\ ((\E a \in Assets : del[p].call[a] = Pending)
                    /\ (\A a \in Assets : del[p].call[a].t # "rejected")) =>
                   (pc[p] = "cleanup" /\ outcome[p] = Unsettled)

\* One remove call has returned, the other is pending, and the invocation waits.
C13_Witness ==
    \E p \in Procs :
        /\ ins[p].call.t = "error"
        /\ del[p].call.image.t = "ok"
        /\ del[p].call.thumbnail = Pending
        /\ pc[p] = "cleanup"

UploadBroken(p) == \E a \in Assets : upl[p][a].t \in {"error", "rejected"}

\* The keys the records of the store reference.
ReferencedKeys ==
    {r.row.image_path.path : r \in records} \cup {r.row.thumbnail_path.path : r \in records}

\* C14: when an upload of an invocation failed, the invocation issues no
\* remove call, and the object of a sibling upload that succeeded stays in
\* storage, referenced by no record.
C14_NoCleanupAfterUploadFailure ==
    \A p \in Procs :
        UploadBroken(p) =>
            /\ calls[p].remove = 0
            /\ del[p].call = NoneIssued
            /\ \A a \in Assets :
                 upl[p][a].t = "ok" =>
                     /\ [key |-> paths[p][a], content |-> a, by |-> p] \in blobs
                     /\ paths[p][a] \notin ReferencedKeys

\* The image was stored, the thumbnail upload failed, the invocation has ended.
C14_Witness ==
    \E p \in Procs :
        /\ Settled(p)
        /\ upl[p].image.t = "ok"
        /\ upl[p].thumbnail.t \in {"error", "rejected"}
        /\ \E b \in blobs : b.key = paths[p].image /\ b.by = p

\* The counters of an invocation that has gone as far as step n.
OrderOfSteps(p) ==
    /\ calls[p].optimize \in {0, 1}
    /\ calls[p].thumbnail \in {0, 1}
    /\ calls[p].upload \in {0, 2}
    /\ calls[p].insert \in {0, 1}
    /\ calls[p].remove \in {0, 2}
    /\ calls[p].thumbnail = 1 => calls[p].optimize = 1 /\ pc[p] # "optimizing"
    /\ calls[p].upload = 2 => calls[p].thumbnail = 1 /\ pc[p] # "thumbnailing"
    /\ calls[p].insert = 1 =>
           calls[p].upload = 2 /\ upl[p].image.t = "ok" /\ upl[p].thumbnail.t = "ok"
    /\ calls[p].remove = 2 => calls[p].insert = 1 /\ ins[p].call.t = "error"
    /\ pc[p] = "optimizing" => calls[p] = [NoCalls EXCEPT !.optimize = 1]
    /\ pc[p] = "thumbnailing" => calls[p] = [NoCalls EXCEPT !.optimize = 1, !.thumbnail = 1]
    /\ (outcome[p].kind = "rejected" /\ outcome[p].thrown.message \in
            {<<"Failed to load image">>, <<"Failed to create blob">>,
             <<"Failed to load image for thumbnail">>, <<"Failed to create thumbnail">>,
             <<"Failed to get canvas context">>}) =>
           (calls[p].upload = 0 /\ calls[p].insert = 0 /\ calls[p].remove = 0)
    /\ Settled(p) <=> outcome[p].kind \in {"fulfilled", "rejected"}

\* An invocation that has ended keeps its outcome and issues no further call.
EndIsFinal(p) ==
    Settled(p) => (pc'[p] = pc[p] /\ outcome'[p] = outcome[p] /\ calls'[p] = calls[p])

\* C15: within an invocation optimize, thumbnail and insert are issued at most
\* once and the uploads once as a pair, each only after the steps before it
\* have succeeded, the insert only after both uploads have returned without
\* error; the invocation ends in one outcome, which then never changes, and
\* issues no call afterwards.
C15_OrderAndNoRetry ==
    /\ [](\A p \in Procs : OrderOfSteps(p))
    /\ [][\A p \in Procs : EndIsFinal(p)]_vars

\* An invocation has ended after its insert, another after a failed thumbnail.
C15_Witness ==
    /\ \E p \in Procs : Settled(p) /\ calls[p].insert = 1
    /\ \E p \in Procs : Settled(p) /\ calls[p] = [NoCalls EXCEPT !.optimize = 1, !.thumbnail = 1]

\* C18: with uploads that refuse an existing key, both objects a record of
\* the store references are in storage, as uploaded by the invocation that
\* inserted the record; remove calls are issued only by an invocation whose
\* own insert returned an error, and only for its own two keys.
C18_CommittedBlobsStay ==
    /\ \A r \in records :
         /\ [key |-> r.row.image_path.path, content |-> "image", by |-> r.by] \in blobs
         /\ [key |-> r.row.thumbnail_path.path, content |-> "thumbnail", by |-> r.by] \in blobs
    /\ \A p \in Procs :
         del[p].call # NoneIssued =>
             /\ ins[p].call.t = "error"
             /\ RecordsOf(p) = {}
             /\ del[p].targets = [image |-> paths[p].image, thumbnail |-> paths[p].thumbnail]

\* A record is committed while another invocation with the same keys has
\* removed its own objects after a failed insert.
C18_Witness ==
    \E p, q \in Procs :
        /\ p # q
        /\ RecordsOf(p) # {}
        /\ paths[p] = paths[q]
        /\ del[q].call.image.t = "ok" /\ del[q].call.thumbnail.t = "ok"

IsUploadError(p) ==
    /\ outcome[p].kind = "rejected"
    /\ outcome[p].thrown.isError
    /\ Len(outcome[p].thrown.message) = 2
    /\ outcome[p].thrown.message[1] \in
           {<<"Failed to upload image: ">>[1], <<"Failed to upload thumbnail: ">>[1]}

\* C19: when both uploads returned an error only the image failure is
\* reported; the thumbnail failure is reported only when the image upload
\* succeeded; the two uploads are dispatched together, and an upload error is
\* raised only when both uploads have returned.
C19_ImageErrorFirst ==
    \A p \in Procs :
        /\ (upl[p].image.t = "error" /\ upl[p].thumbnail.t = "error") =>
               (/\ Settled(p)
                /\ outcome[p].thrown.message =
                       <<"Failed to upload image: ">> \o upl[p].image.message)
        /\ (IsUploadError(p) /\ outcome[p].thrown.message[1] = "Failed to upload thumbnail: ") =>
               (upl[p].image.t = "ok" /\ upl[p].thumbnail.t = "error")
        /\ IsUploadError(p) => BothReturned(p)
        /\ (upl[p].image = NotIssued) <=> (upl[p].thumbnail = NotIssued)
        /\ calls[p].upload = (IF upl[p].image = NotIssued THEN 0 ELSE 2)

\* Both uploads returned an error.
C19_Witness ==
    \E p \in Procs :
        /\ upl[p].image.t = "error" /\ upl[p].thumbnail.t = "error"
        /\ FailsWith(p, <<"Failed to upload image: ">> \o upl[p].image.message)

----------------------------------------------------------------------------
(* Properties of the object URL and of the promise of the image processor *)

\* C17: a call of optimizeImage or createThumbnail creates one object URL
\* and revokes it once, when the image has loaded or has failed to load,
\* whatever the canvas context and the encoding do afterwards; its promise is
\* settled once, by the callback that ends the call.
C17_ObjectUrlReleasedOnce ==
    /\ ip.pc = "idle" => (ip.created = 0 /\ ip.revoked = 0 /\ ip.settled = 0)
    /\ ip.pc = "loading" => (ip.created = 1 /\ ip.revoked = 0 /\ ip.settled = 0)
    /\ ip.pc = "encoding" => (ip.created = 1 /\ ip.revoked = 1 /\ ip.settled = 0)
    /\ ip.pc = "returned" => (ip.created = 1 /\ ip.revoked = 1 /\ ip.settled = 1)
    /\ ip.settled = 0 <=> ip.result = Pending

\* A load has failed, and the URL is released.
C17_Witness ==
    /\ ip.pc = "returned"
    /\ ip.result.t = "rejected"
    /\ ip.result.value.message \in {<<"Failed to load image">>,
                                    <<"Failed to load image for thumbnail">>}
    /\ ip.revoked = 1

----------------------------------------------------------------------------
(* Termination *)

Running(p) == pc[p] \in {"optimizing", "thumbnailing", "uploading", "inserting", "cleanup"}

\* Every invocation that was started eventually ends.
Terminates == \A p \in Procs : Running(p) ~> Settled(p)

\* Some call of the kind the invocation awaits has not completed.
CallPending(p) ==
    \/ \E a \in Assets : upl[p][a] = Pending
    \/ ins[p].call = Pending
    \/ \E a \in Assets : del[p].call[a] = Pending

\* C16 (as stated): when every external operation eventually completes every
\* invocation ends; and an invocation never ends while a call it awaits has
\* not completed.
C16_AsStated ==
    /\ Terminates
    /\ [](\A p \in Procs : Settled(p) => ~CallPending(p))

\* An invocation that has not ended has no outcome, and one that has ended
\* has no call pending, except the sibling of an upload or remove call whose
\* rejection it ended with.
EndsOnlyOnCompletion(p) ==
    /\ Running(p) => outcome[p] = Unsettled
    /\ pc[p] = "uploading" => (\E a \in Assets : upl[p][a] = Pending)
    /\ pc[p] = "inserting" => ins[p].call = Pending
    /\ pc[p] = "cleanup" => (\E a \in Assets : del[p].call[a] = Pending)
    /\ Settled(p) => ins[p].call # Pending
    /\ \A a \in Assets :
         /\ (Settled(p) /\ upl[p][a] = Pending) =>
                (/\ outcome[p].kind = "rejected"
                 /\ \E b \in Assets \ {a} :
                      /\ upl[p][b].t = "rejected"
                      /\ outcome[p].thrown = upl[p][b].value)
         /\ (Settled(p) /\ del[p].call[a] = Pending) =>
                (/\ outcome[p].kind = "rejected"
                 /\ \E b \in Assets \ {a} :
                      /\ del[p].call[b].t = "rejected"
                      /\ outcome[p].thrown = del[p].call[b].value)

\* C16 (amended): when every external operation eventually completes every
\* invocation ends with the success marker or an error; there is no timeout:
\* an invocation does not end while the image processing, the insert, or a
\* call of the upload pair or of the remove pair it awaits is pending, unless
\* the other call of that pair has rejected, which ends it at once.
C16_TerminatesOnCompletion ==
    /\ Terminates
    /\ [](\A p \in Procs : EndsOnlyOnCompletion(p))

\* An invocation has ended on the rejection of one upload while the other
\* upload is pending.
C16_Witness ==
    \E p \in Procs :
        /\ Settled(p)
        /\ upl[p].image = Pending
        /\ upl[p].thumbnail.t = "rejected"

====
